---- MODULE Spec2Model ----
(***************************************************************************)
(* A model of novelscraper: the two scrapers (WuxiaWorld, NovelFull), the  *)
(* blocking fetcher, the ThreadPoolExecutor.map extraction pool and the    *)
(* EPUB assembly of BaseScraper.create_epub.                               *)
(*                                                                         *)
(* Strings that the code searches, splits or parses (URLs, link titles)    *)
(* are sequences of tokens; the separators "/" and "-" and every decimal   *)
(* digit are tokens of their own, so that `in`, str.split, re.findall and  *)
(* int() are computed as the code computes them.                           *)
(***************************************************************************)
EXTENDS Integers, Sequences, FiniteSets, TLC

(* ------------------------------ bounds --------------------------------- *)
\* Largest chapter bound given on the command line of the modelled runs.
MaxChapter == 3
\* Largest chapter bound of the page-arithmetic specification.
MaxRangeChapter == 120
\* Longest listing of the filtering specification.
MaxListing == 3
\* Longest chapter list of the assembly specification.
MaxAssemble == 3
\* The targets beyond the worker budget in the runs of the worker specification.
MaxBacklog == 1

(* -------------------------- program constants -------------------------- *)
\* BaseScraper.max_workers
max_workers == 50
\* The only status get_page_content accepts.
StatusOK == 200
\* The number of chapters on one NovelFull listing page.
PageSize == 50

(* ----------------------------- strings --------------------------------- *)
Digits == <<"0", "1", "2", "3", "4", "5", "6", "7", "8", "9">>

IsDigit(t) == \E d \in 1..10 : Digits[d] = t

DigitValue(t) == (CHOOSE d \in 1..10 : Digits[d] = t) - 1

\* str(n) for n >= 0, as digit tokens.
RECURSIVE str(_)
str(n) == IF n < 10 THEN <<Digits[n + 1]>>
          ELSE str(n \div 10) \o <<Digits[(n % 10) + 1]>>

\* Whether int(s) succeeds: s is a non-empty run of digits.
IsNumeral(s) == Len(s) > 0 /\ \A i \in 1..Len(s) : IsDigit(s[i])

\* int(s) of a run of digits.
RECURSIVE int(_)
int(s) == IF Len(s) = 0 THEN 0
          ELSE 10 * int(SubSeq(s, 1, Len(s) - 1)) + DigitValue(s[Len(s)])

\* sub in s
Contains(sub, s) ==
    \E i \in 0..(Len(s) - Len(sub)) : SubSeq(s, i + 1, i + Len(sub)) = sub

\* s.split(sep)[-1]
LastSegment(s, sep) ==
    LET cuts == {i \in 1..Len(s) : s[i] = sep}
        last == IF cuts = {} THEN 0 ELSE CHOOSE i \in cuts : \A j \in cuts : j <= i
    IN  SubSeq(s, last + 1, Len(s))

\* s.endswith(sep)
EndsWith(s, sep) == Len(s) > 0 /\ s[Len(s)] = sep

\* re.findall(r"\d+", s)[0]: the first maximal run of digits of s, <<>> if none.
FirstNumber(s) ==
    LET ds == {i \in 1..Len(s) : IsDigit(s[i])}
    IN  IF ds = {} THEN <<>>
        ELSE LET first == CHOOSE i \in ds : \A j \in ds : i <= j
                 stop  == CHOOSE k \in first..Len(s) :
                              /\ \A j \in first..k : IsDigit(s[j])
                              /\ (k = Len(s) \/ ~IsDigit(s[k + 1]))
             IN  SubSeq(s, first, stop)

\* len(re.findall(r"\d+", s)) > 0
HasNumber(s) == \E i \in 1..Len(s) : IsDigit(s[i])

\* All sequences over S of length at most n.
RECURSIVE SeqsUpTo(_, _)
SeqsUpTo(S, n) ==
    IF n = 0 THEN {<<>>}
    ELSE LET shorter == SeqsUpTo(S, n - 1)
         IN  shorter \cup {Append(s, x) : s \in {t \in shorter : Len(t) = n - 1}, x \in S}

(* ------------------------------ domains -------------------------------- *)
\* WuxiaWorld.domain
WuxiaWorldDomain == <<"https:", "/", "/", "www.wuxiaworld.com">>
\* NovelFull.domain
NovelFullDomain == <<"https:", "/", "/", "novelfull.com">>

\* The URLs given on the command line of the modelled runs.
UrlNoSlash  == WuxiaWorldDomain \o <<"/", "novel", "/", "x">>
UrlSlash    == WuxiaWorldDomain \o <<"/", "novel", "/", "x", "/">>
UrlFull     == NovelFullDomain \o <<"/", "x.html">>
UrlForeign  == <<"https:", "/", "/", "mirror.example", "/", "?u=">> \o WuxiaWorldDomain
UrlForeignFull == <<"https:", "/", "/", "mirror.example", "/", "?u=">> \o NovelFullDomain
Urls == {UrlNoSlash, UrlSlash, UrlFull, UrlForeign, UrlForeignFull}

(* --------------------------- construction ------------------------------ *)
\* A command-line chapter bound: <<>> when the flag is omitted (None), <<n>> else.
None == <<>>

NoError == [exc |-> "none", msg |-> "none"]

Raise(exc, msg) == [exc |-> exc, msg |-> msg]

\* WuxiaWorld.__init__: the exception it raises, NoError when it returns.
WuxiaWorldInit(u, s, e) ==
    IF ~Contains(WuxiaWorldDomain, u)
    THEN Raise("ScraperError", "WuxiaWorld scraper does not support the given URL")
    ELSE IF s = None THEN Raise("TypeError", "'<' not supported")
    ELSE IF s[1] < 1
    THEN Raise("ScraperError", "Invalid start chapter, must be greater than 0")
    ELSE IF e = None THEN Raise("TypeError", "'<' not supported")
    ELSE IF e[1] < 1
    THEN Raise("ScraperError",
               "Invalid end chapter, must be greater or equal to start chapter")
    ELSE NoError

\* NovelFull.__init__: the exception it raises, NoError when it returns.
NovelFullInit(u, s, e) ==
    IF ~Contains(NovelFullDomain, u)
    THEN Raise("ScraperError", "NovelFull scraper does not support the given URL")
    ELSE IF s = None THEN Raise("TypeError", "'<' not supported")
    ELSE IF s[1] < 1
    THEN Raise("ScraperError", "Invalid start page, must be greater than 0")
    ELSE IF e = None THEN Raise("TypeError", "'<' not supported")
    ELSE IF e[1] < 1
    THEN Raise("ScraperError",
               "Invalid end page, must be greater or equal to start page")
    ELSE NoError

(* ------------------------- page arithmetic ----------------------------- *)
\* range(a, b) as a list
Range(a, b) == [i \in 1..(IF b > a THEN b - a ELSE 0) |-> a + i - 1]

\* Page arithmetic without the correction for chapters that end a page.
calculate_pages_unadjusted(s, e) ==
    Range((s \div PageSize) + 1, (e \div PageSize) + 1 + 1)

\* NovelFull.calculate_pages_to_scrape
calculate_pages_to_scrape(s, e) ==
    LET start_chapter_rest == s % PageSize
        end_chapter_rest   == e % PageSize
        start_page == IF start_chapter_rest = 0
                      THEN (s \div PageSize) - 1 ELSE s \div PageSize
        end_page   == IF end_chapter_rest = 0
                      THEN (e \div PageSize) - 1 ELSE e \div PageSize
    IN  Range(start_page + 1, end_page + 1 + 1)

(* ------------------------- listing filter ------------------------------ *)
\* A filter that drops the links whose title holds no number.
KeepNumberedOnly(chapter, s, e) ==
    /\ HasNumber(chapter.title)
    /\ s <= int(FirstNumber(chapter.title))
    /\ int(FirstNumber(chapter.title)) <= e

\* The test of NovelFull.filter_chapter_list's loop body: whether the link is kept.
KeepChapter(chapter, s, e) ==
    IF HasNumber(chapter.title)
    THEN s <= int(FirstNumber(chapter.title)) /\ int(FirstNumber(chapter.title)) <= e
    ELSE TRUE

\* NovelFull.filter_chapter_list
RECURSIVE filter_chapter_list(_, _, _)
filter_chapter_list(chapters, s, e) ==
    IF chapters = <<>> THEN <<>>
    ELSE LET filtered_chapters ==
                 filter_chapter_list(SubSeq(chapters, 1, Len(chapters) - 1), s, e)
             chapter == chapters[Len(chapters)]
         IN  IF KeepChapter(chapter, s, e)
             THEN Append(filtered_chapters, chapter)
             ELSE filtered_chapters

(* ------------------------------ sorting -------------------------------- *)
\* A sort with reverse=True: x goes after every element whose key is not smaller.
SortPositionDescending(xs, x) ==
    Cardinality({i \in 1..Len(xs) : xs[i].chapter_number >= x.chapter_number})

\* A sort that is not stable: x goes before the elements of equal key.
SortPositionBeforeTies(xs, x) ==
    Cardinality({i \in 1..Len(xs) : xs[i].chapter_number < x.chapter_number})

\* Where list.sort(key=chapter_number) puts x among the already sorted xs: after
\* every element whose key is not greater (the sort is stable).
SortPosition(xs, x) ==
    Cardinality({i \in 1..Len(xs) : xs[i].chapter_number <= x.chapter_number})

InsertAt(xs, k, x) == SubSeq(xs, 1, k) \o <<x>> \o SubSeq(xs, k + 1, Len(xs))

\* list.sort(key=chapter_number) of the first n elements of xs: the n-th is put
\* into the sorted list of those before it. (The sorted list is bound as the
\* element of a singleton set, so that it is computed once.)
RECURSIVE SortPrefix(_, _)
SortPrefix(xs, n) ==
    IF n = 0 THEN <<>>
    ELSE CHOOSE ys \in {InsertAt(sorted, SortPosition(sorted, xs[n]), xs[n]) :
                           sorted \in {SortPrefix(xs, n - 1)}} : TRUE

\* chapters_info.sort(key=lambda chapter: chapter["chapter_number"])
SortByChapterNumber(xs) == SortPrefix(xs, Len(xs))

(* ------------------------- chapter extraction -------------------------- *)
\* A parsed chapter page: whether <div id="chapter-outer">, its <h4> and
\* <div id="chapter-content"> exist, the <p> texts inside the content container
\* (inner) and those elsewhere in the document (outside).
ChapterDoc(outer, h4, container, inner, outside) ==
    [outer |-> outer, h4 |-> h4, container |-> container,
     inner |-> inner, outside |-> outside]

\* The chapter pages the remote site may answer with.
ChapterDocs ==
    {ChapterDoc(o, h, TRUE, i, x) :
        o \in BOOLEAN, h \in BOOLEAN,
        i \in {<<>>, <<"a1">>, <<"a1", "a2">>}, x \in {<<>>, <<"b1", "b2">>}}
    \cup {ChapterDoc(TRUE, TRUE, FALSE, <<>>, x) : x \in {<<>>, <<"b1", "b2">>}}

\* The response to a GET: its status code and, when that is 200, the page.
Statuses == {StatusOK, 404}

Responses(docs) ==
    {[status |-> s, doc |-> d] : s \in {StatusOK}, d \in docs}
    \cup {[status |-> s, doc |-> <<>>] : s \in Statuses \ {StatusOK}}

\* BaseScraper.get_page_content: whether the GET's response makes it return.
get_page_content_ok(response) == response.status = StatusOK

ChapterInfo(chapter_url, chapter_number, chapter_title, chapter_content) ==
    [chapter_url |-> chapter_url, chapter_number |-> chapter_number,
     chapter_title |-> chapter_title, chapter_content |-> chapter_content]

NoChapterInfo == ChapterInfo(<<>>, 0, <<>>, <<>>)

\* What a task leaves in its future: a result, or the exception it raised.
Returned(info) == [exc |-> "none", result |-> info]

Raised(exc) == [exc |-> exc, result |-> NoChapterInfo]

\* "Novel-Scraper failed to scrape the contents of this chapter."
FailedContent == <<"Novel-Scraper failed to scrape the contents of this chapter.">>

\* The text of the <h4> of a WuxiaWorld chapter page.
WuxiaTitle == <<"Chapter title">>

\* WuxiaWorld.scrape_chapter_page(chapter_url), given the GET's response.
WuxiaWorld_scrape_chapter_page(chapter_url, response) ==
    IF ~get_page_content_ok(response) THEN Raised("ScraperError")
    ELSE IF ~response.doc.outer THEN Raised("AttributeError")
    ELSE IF ~response.doc.h4 THEN Raised("AttributeError")
    ELSE IF ~IsNumeral(LastSegment(chapter_url, "-")) THEN Raised("ValueError")
    ELSE IF ~response.doc.container THEN Raised("AttributeError")
    ELSE Returned(ChapterInfo(chapter_url, int(LastSegment(chapter_url, "-")),
                              WuxiaTitle, response.doc.inner))

\* The chapter number NovelFull.scrape_chapter_page reads off a link's title.
NovelFullChapterNumber(chapter_title) ==
    IF HasNumber(chapter_title) THEN int(FirstNumber(chapter_title)) ELSE -1

\* NovelFull.scrape_chapter_page(chapter), given the GET's response.
NovelFull_scrape_chapter_page(chapter, response) ==
    LET chapter_number == NovelFullChapterNumber(chapter.title)
        primary  == response.doc.inner
        fallback == response.doc.inner \o response.doc.outside
    IN  IF ~get_page_content_ok(response) THEN Raised("ScraperError")
        ELSE IF ~response.doc.container THEN Raised("AttributeError")
        ELSE IF Len(primary) <= 1
             THEN IF Len(fallback) > 1
                  THEN Returned(ChapterInfo(chapter.href, chapter_number,
                                            chapter.title, fallback))
                  ELSE Returned(ChapterInfo(chapter.href, chapter_number,
                                            chapter.title, FailedContent))
             ELSE Returned(ChapterInfo(chapter.href, chapter_number,
                                       chapter.title, primary))

(* --------------------------- NovelFull site ---------------------------- *)
\* A chapter link of a listing page: <a href=... title=...>.
Link(href, title) == [href |-> href, title |-> title]

LinkPrologue == Link(<<"/", "x", "/", "prologue.html">>, <<"Prologue">>)
LinkChapter1 ==
    Link(<<"/", "x", "/", "chapter", "-", "1", ".html">>, <<"Chapter", " ", "1">>)
LinkChapter1Part2 ==
    Link(<<"/", "x", "/", "chapter", "-", "1", "-", "2", ".html">>,
         <<"Chapter", " ", "1", " ", "Part", " ", "2">>)
LinkChapter2 ==
    Link(<<"/", "x", "/", "chapter", "-", "2", ".html">>, <<"Chapter", " ", "2">>)
LinkChapter50 ==
    Link(<<"/", "x", "/", "chapter", "-", "5", "0", ".html">>,
         <<"Chapter", " ", "5", "0">>)
LinkChapter51 ==
    Link(<<"/", "x", "/", "chapter", "-", "5", "1", ".html">>,
         <<"Chapter", " ", "5", "1">>)

\* The links the remote site's listing pages may hold.
Links == {LinkPrologue, LinkChapter1, LinkChapter1Part2, LinkChapter2,
          LinkChapter50, LinkChapter51}

\* A parsed novel page: whether the title element, the cover <img>, the author
\* block and the synopsis block exist.
ListingDocs ==
    [parsed : {TRUE}, title : BOOLEAN, cover : BOOLEAN, author : BOOLEAN,
     synopsis : BOOLEAN]

\* A parsed NovelFull listing page ?page=N: whether <div id="list-chapter"> exists.
PageDocs == [list : BOOLEAN]

\* The src of the cover <img> of the novel page.
WuxiaCoverSrc == <<"https:", "/", "/", "cdn.wuxiaworld.com", "/", "cover.png">>
NovelFullCoverSrc == <<"/", "cover.png">>

(* ------------------------------- state --------------------------------- *)
VARIABLES
    entry,            \* "wuxiaworld", "novelfull": the subcommand main() dispatches
                      \* to; "NovelFull": a caller constructing NovelFull itself
    args,             \* the parsed arguments: url, start_chapter, end_chapter
    site,             \* the remote NovelFull site: listing page number -> its links
    network,          \* how the remote server answers the chapter GETs
    pc,               \* where the main thread is
    exception,        \* the exception that ended the run, "none" if none
    self,             \* the scraper's url, start_chapter, end_chapter,
                      \* novel_chapter_link
    soup,             \* the parsed novel page
    novel_info,       \* whether title, cover bytes, author and description are set
    requests,         \* the URLs a GET was sent to
    failed_gets,      \* those of them whose response was not a 200
    pages_to_scrape,  \* NovelFull.scrape's list of pages
    page_index,       \* the position of its for loop in that list
    chapters,         \* the links of the listing page being scraped, unfiltered
    targets,          \* the iterable given to executor.map
    futures,          \* the pool's futures, one per target
    collected,        \* list(results_gen), as far as it has got
    raised,           \* the exception unwinding through the with block, or "none"
    completed,        \* the indices of the tasks of this pool, in completion order
    chapters_info,    \* the scraped chapters
    book,             \* the EpubBook's toc and spine
    artifacts         \* the files written

vars == <<entry, args, site, network, pc, exception, self, soup, novel_info, requests,
          failed_gets, pages_to_scrape, page_index, chapters, targets, futures, collected,
          raised, completed, chapters_info, book, artifacts>>

Scraper == IF entry = "wuxiaworld" THEN "WuxiaWorld" ELSE "NovelFull"

NoSelf == [url |-> <<>>, start_chapter |-> 0, end_chapter |-> 0,
           novel_chapter_link |-> <<>>]

NoSoup == [parsed |-> FALSE, title |-> FALSE, cover |-> FALSE, author |-> FALSE,
           synopsis |-> FALSE]

NoBook == [toc |-> <<>>, spine |-> <<>>]

Pending == [state |-> "pending", exc |-> "none", result |-> NoChapterInfo]

\* The chapter bounds of the modelled command lines: omitted, below 1, in range.
ChapterArgs == {None} \cup {<<n>> : n \in 0..MaxChapter}

\* The chapter bounds given to a NovelFull constructed by a caller: these reach
\* the second listing page.
NovelFullArgs == {<<n>> : n \in {0, 1, PageSize, PageSize + 1}}

\* The remote sites of the modelled runs, each a function from the listing page's
\* number to the links it holds: one listed in chapter order, one out of order
\* with an unnumbered link on its second page, one with nothing listed.
SiteOrdered ==
    <<(<<LinkPrologue, LinkChapter1, LinkChapter50>>), (<<LinkChapter51>>)>>
SiteUnordered ==
    <<(<<LinkChapter50, LinkChapter1>>), (<<LinkChapter51, LinkPrologue>>)>>
SiteEmpty == <<(<<>>), (<<>>)>>

Sites == {SiteOrdered, SiteUnordered, SiteEmpty}

NoSite == <<>>

\* How the remote server answers the GETs of the chapter tasks: the URLs whose
\* GET never returns (requests.get is called without a timeout), whether the
\* server answers one request at a time, in the order they were sent, and the
\* responses it may give.
Network(hung, serial, answers) ==
    [hung |-> hung, serial |-> serial, answers |-> answers]

\* A server that answers every GET, in any order, with any response.
Responsive == Network({}, FALSE, Responses(ChapterDocs))

\* The state main() starts the subcommand's function in.
Started ==
    /\ pc = "main"
    /\ exception = "none"
    /\ self = NoSelf
    /\ soup = NoSoup
    /\ novel_info = FALSE
    /\ requests = {}
    /\ failed_gets = {}
    /\ pages_to_scrape = <<>>
    /\ page_index = 0
    /\ chapters = <<>>
    /\ targets = <<>>
    /\ futures = <<>>
    /\ collected = <<>>
    /\ raised = "none"
    /\ completed = <<>>
    /\ chapters_info = <<>>
    /\ book = NoBook
    /\ artifacts = {}

Init ==
    /\ \/ /\ entry \in {"wuxiaworld", "novelfull"}
          /\ args \in [url : Urls, start_chapter : ChapterArgs,
                       end_chapter : ChapterArgs]
          /\ site = NoSite
       \/ /\ entry = "NovelFull"
          /\ args \in [url : Urls, start_chapter : NovelFullArgs,
                       end_chapter : NovelFullArgs]
          /\ site \in Sites
    /\ network = Responsive
    /\ Started

(* ----------------------------- main thread ----------------------------- *)
Fail(exc) ==
    /\ pc' = "failed"
    /\ exception' = exc

\* WuxiaWorld.run, up to the call of scrape: the construction.
WuxiaWorldRun ==
    /\ pc = "main"
    /\ entry = "wuxiaworld"
    /\ LET r == WuxiaWorldInit(args.url, args.start_chapter, args.end_chapter)
       IN  IF r.exc # "none"
           THEN Fail(r.exc) /\ UNCHANGED self
           ELSE /\ self' = [url |-> args.url,
                            start_chapter |-> args.start_chapter[1],
                            end_chapter |-> args.end_chapter[1],
                            novel_chapter_link |-> <<>>]
                /\ pc' = "novel_info"
                /\ UNCHANGED exception
    /\ UNCHANGED <<entry, args, site, network, soup, novel_info, requests, failed_gets,
                   pages_to_scrape, page_index, chapters, targets, futures,
                   collected, raised, completed, chapters_info, book,
                   artifacts>>

\* A run that constructs the scraper of the novelfull subcommand and goes on to
\* scrape, as the lines commented out at the end of NovelFull.run would.
NovelFullRunScraping ==
    /\ pc = "main"
    /\ entry = "novelfull"
    /\ LET r == NovelFullInit(args.url, args.start_chapter, args.end_chapter)
       IN  IF r.exc # "none"
           THEN Fail(r.exc) /\ UNCHANGED self
           ELSE /\ self' = [url |-> args.url,
                            start_chapter |-> args.start_chapter[1],
                            end_chapter |-> args.end_chapter[1],
                            novel_chapter_link |-> <<>>]
                /\ pc' = "novel_info"
                /\ UNCHANGED exception
    /\ UNCHANGED <<entry, args, site, network, soup, novel_info, requests, failed_gets,
                   pages_to_scrape, page_index, chapters, targets, futures,
                   collected, raised, completed, chapters_info, book,
                   artifacts>>

\* NovelFull.run
NovelFullRun ==
    /\ pc = "main"
    /\ entry = "novelfull"
    /\ Fail("ScraperError")
    /\ UNCHANGED <<entry, args, site, network, self, soup, novel_info, requests,
                   failed_gets, pages_to_scrape, page_index, chapters,
                   targets, futures, collected, raised, completed,
                   chapters_info, book, artifacts>>

\* NovelFull(url, start_chapter, end_chapter), by a caller that then calls scrape.
NovelFullConstruct ==
    /\ pc = "main"
    /\ entry = "NovelFull"
    /\ LET r == NovelFullInit(args.url, args.start_chapter, args.end_chapter)
       IN  IF r.exc # "none"
           THEN Fail(r.exc) /\ UNCHANGED self
           ELSE /\ self' = [url |-> args.url,
                            start_chapter |-> args.start_chapter[1],
                            end_chapter |-> args.end_chapter[1],
                            novel_chapter_link |-> <<>>]
                /\ pc' = "novel_info"
                /\ UNCHANGED exception
    /\ UNCHANGED <<entry, args, site, network, soup, novel_info, requests, failed_gets,
                   pages_to_scrape, page_index, chapters, targets, futures,
                   collected, raised, completed, chapters_info, book,
                   artifacts>>

\* scrape_novel_info, up to the cover's GET: the novel page is fetched and parsed,
\* the title and the cover <img> are looked up.
FetchNovelPage ==
    /\ pc = "novel_info"
    /\ requests' = requests \cup {self.url}
    /\ \E response \in Responses(ListingDocs) :
          IF ~get_page_content_ok(response)
          THEN /\ Fail("ScraperError")
               /\ failed_gets' = failed_gets \cup {self.url}
               /\ UNCHANGED soup
          ELSE /\ soup' = response.doc
               /\ UNCHANGED failed_gets
               /\ IF ~response.doc.title \/ ~response.doc.cover
                  THEN Fail("AttributeError")
                  ELSE pc' = "cover" /\ UNCHANGED exception
    /\ UNCHANGED <<entry, args, site, network, self, novel_info, pages_to_scrape,
                   page_index, chapters, targets, futures, collected, raised,
                   completed, chapters_info, book, artifacts>>

\* WuxiaWorld.scrape_novel_info's novel_chapter_link
WuxiaChapterLink(u) ==
    IF ~EndsWith(u, "/")
    THEN <<"/">> \o LastSegment(u, "/") \o <<"-", "chapter", "-">>
    ELSE LastSegment(u, "/") \o <<"-", "chapter", "-">>

\* The URL of the cover image.
CoverUrl ==
    IF Scraper = "WuxiaWorld" THEN WuxiaCoverSrc ELSE NovelFullDomain \o NovelFullCoverSrc

\* A cover fetch that does not look at the response's status.
FetchCoverUnchecked ==
    /\ pc = "cover"
    /\ requests' = requests \cup {CoverUrl}
    /\ \E status \in Statuses :
          /\ failed_gets' = IF status # StatusOK THEN failed_gets \cup {CoverUrl}
                            ELSE failed_gets
          /\ IF ~soup.author \/ ~soup.synopsis
             THEN Fail("AttributeError") /\ UNCHANGED <<self, novel_info>>
             ELSE /\ novel_info' = TRUE
                  /\ self' = IF Scraper = "WuxiaWorld"
                             THEN [self EXCEPT !.novel_chapter_link =
                                                   WuxiaChapterLink(self.url)]
                             ELSE self
                  /\ pc' = IF Scraper = "WuxiaWorld" THEN "targets" ELSE "pages"
                  /\ UNCHANGED exception
    /\ UNCHANGED <<entry, args, site, network, soup, pages_to_scrape, page_index,
                   chapters, targets, futures, collected, raised, completed,
                   chapters_info, book, artifacts>>

\* scrape_novel_info, from the cover's GET on: the cover is fetched, the author and
\* the description are looked up.
FetchCover ==
    /\ pc = "cover"
    /\ requests' = requests \cup {CoverUrl}
    /\ \E status \in Statuses :
          IF status # StatusOK
          THEN /\ Fail("ScraperError")
               /\ failed_gets' = failed_gets \cup {CoverUrl}
               /\ UNCHANGED <<self, novel_info>>
          ELSE /\ UNCHANGED failed_gets
               /\ IF ~soup.author \/ ~soup.synopsis
                  THEN Fail("AttributeError") /\ UNCHANGED <<self, novel_info>>
                  ELSE /\ novel_info' = TRUE
                       /\ self' = IF Scraper = "WuxiaWorld"
                                  THEN [self EXCEPT !.novel_chapter_link =
                                                        WuxiaChapterLink(self.url)]
                                  ELSE self
                       /\ pc' = IF Scraper = "WuxiaWorld" THEN "targets" ELSE "pages"
                       /\ UNCHANGED exception
    /\ UNCHANGED <<entry, args, site, network, soup, pages_to_scrape, page_index,
                   chapters, targets, futures, collected, raised, completed,
                   chapters_info, book, artifacts>>

\* The futures executor.map creates: one per element, none started.
Submit(iterable) == [i \in 1..Len(iterable) |-> Pending]

\* WuxiaWorld.scrape's chapters_to_scrape
chapters_to_scrape ==
    LET numbers == Range(self.start_chapter, self.end_chapter + 1)
    IN  [k \in 1..Len(numbers) |-> self.url \o self.novel_chapter_link \o str(numbers[k])]

\* WuxiaWorld.scrape, from the target list to executor.map's submissions.
DispatchChapters ==
    /\ pc = "targets"
    /\ targets' = chapters_to_scrape
    /\ futures' = Submit(chapters_to_scrape)
    /\ collected' = <<>>
    /\ completed' = <<>>
    /\ pc' = "pool"
    /\ UNCHANGED <<entry, args, site, network, exception, self, soup, novel_info,
                   requests, failed_gets, pages_to_scrape, page_index,
                   chapters, raised, chapters_info, book, artifacts>>

\* NovelFull.scrape, from calculate_pages_to_scrape to the head of its for loop.
CalculatePages ==
    /\ pc = "pages"
    /\ pages_to_scrape' = calculate_pages_to_scrape(self.start_chapter, self.end_chapter)
    /\ page_index' = 1
    /\ pc' = IF pages_to_scrape' = <<>> THEN "assemble" ELSE "page"
    /\ UNCHANGED <<entry, args, site, network, exception, self, soup, novel_info,
                   requests, failed_gets, chapters, targets, futures,
                   collected, raised, completed, chapters_info, book,
                   artifacts>>

\* The URL of listing page `page`.
PageUrl(page) == self.url \o <<"?page=">> \o str(page)

\* What the remote site lists on page `page`.
SiteListing(page) == IF page \in DOMAIN site THEN site[page] ELSE <<>>

\* NovelFull.scrape_novel_page, up to executor.map's submissions: the listing page
\* is fetched and parsed, its links are filtered.
ScrapeNovelPage ==
    /\ pc = "page"
    /\ LET page == pages_to_scrape[page_index]
       IN  /\ requests' = requests \cup {PageUrl(page)}
           /\ \E response \in Responses(PageDocs) :
                 IF ~get_page_content_ok(response)
                 THEN /\ Fail("ScraperError")
                      /\ failed_gets' = failed_gets \cup {PageUrl(page)}
                      /\ UNCHANGED <<chapters, targets, futures, collected,
                                     completed>>
                 ELSE IF ~response.doc.list
                 THEN /\ Fail("AttributeError")
                      /\ UNCHANGED <<failed_gets, chapters, targets, futures,
                                     collected, completed>>
                 ELSE /\ chapters' = SiteListing(page)
                      /\ UNCHANGED failed_gets
                      /\ targets' = filter_chapter_list(SiteListing(page),
                                        self.start_chapter, self.end_chapter)
                      /\ futures' = Submit(targets')
                      /\ collected' = <<>>
                      /\ completed' = <<>>
                      /\ pc' = "pool"
                      /\ UNCHANGED exception
    /\ UNCHANGED <<entry, args, site, network, self, soup, novel_info, pages_to_scrape,
                   page_index, raised, chapters_info, book, artifacts>>

(* -------------------------------- pool --------------------------------- *)
Running == {i \in 1..Len(futures) : futures[i].state = "running"}

Queued == {i \in 1..Len(futures) : futures[i].state = "pending"}

\* The URL the task of target t sends its GET to.
TargetUrl(t) == IF Scraper = "WuxiaWorld" THEN t ELSE NovelFullDomain \o t.href

\* scrape_chapter_page of the scraper at hand.
scrape_chapter_page(t, response) ==
    IF Scraper = "WuxiaWorld"
    THEN WuxiaWorld_scrape_chapter_page(t, response)
    ELSE NovelFull_scrape_chapter_page(t, response)

\* A pool that starts a thread for every queued task, whatever the number of
\* tasks already executing.
StartTaskUnbounded(i) ==
    /\ pc = "pool"
    /\ i \in Queued
    /\ \A j \in Queued : i <= j
    /\ futures' = [futures EXCEPT ![i].state = "running"]
    /\ requests' = requests \cup {TargetUrl(targets[i])}
    /\ UNCHANGED <<entry, args, site, network, pc, exception, self, soup,
                   novel_info, failed_gets, pages_to_scrape, page_index,
                   chapters, targets, collected, raised, completed,
                   chapters_info, book, artifacts>>

\* A worker takes the oldest queued task and sends its GET.
StartTask(i) ==
    /\ pc = "pool"
    /\ i \in Queued
    /\ \A j \in Queued : i <= j
    /\ Cardinality(Running) < max_workers
    /\ futures' = [futures EXCEPT ![i].state = "running"]
    /\ requests' = requests \cup {TargetUrl(targets[i])}
    /\ UNCHANGED <<entry, args, site, network, pc, exception, self, soup, novel_info,
                   failed_gets, pages_to_scrape, page_index, chapters,
                   targets, collected, raised, completed, chapters_info, book,
                   artifacts>>

\* A fetch that is given up and sent again until the server answers it.
FinishTaskRetried(i) ==
    /\ pc = "pool"
    /\ i \in Running
    /\ network.serial => \A j \in Running : i <= j
    /\ \E response \in network.answers :
          LET outcome == scrape_chapter_page(targets[i], response)
          IN  /\ futures' = [futures EXCEPT ![i] = [state |-> "finished",
                                                    exc |-> outcome.exc,
                                                    result |-> outcome.result]]
              /\ failed_gets' = IF get_page_content_ok(response) THEN failed_gets
                                ELSE failed_gets \cup {TargetUrl(targets[i])}
    /\ completed' = Append(completed, i)
    /\ UNCHANGED <<entry, args, site, network, pc, exception, self, soup,
                   novel_info, requests, pages_to_scrape, page_index, chapters,
                   targets, collected, raised, chapters_info, book, artifacts>>

\* The GET of task i returns, unless the server never answers it; the task
\* extracts the chapter and sets its future.
FinishTask(i) ==
    /\ pc = "pool"
    /\ i \in Running
    /\ TargetUrl(targets[i]) \notin network.hung
    /\ network.serial => \A j \in Running : i <= j
    /\ \E response \in network.answers :
          LET outcome == scrape_chapter_page(targets[i], response)
          IN  /\ futures' = [futures EXCEPT ![i] = [state |-> "finished",
                                                    exc |-> outcome.exc,
                                                    result |-> outcome.result]]
              /\ failed_gets' = IF get_page_content_ok(response) THEN failed_gets
                                ELSE failed_gets \cup {TargetUrl(targets[i])}
    /\ completed' = Append(completed, i)
    /\ UNCHANGED <<entry, args, site, network, pc, exception, self, soup, novel_info,
                   requests, pages_to_scrape, page_index, chapters, targets,
                   collected, raised, chapters_info, book, artifacts>>

\* What the result iterator's finally clause does to the futures not yet yielded.
CancelRest(fs) ==
    [i \in 1..Len(fs) |-> IF fs[i].state = "pending"
                          THEN [fs[i] EXCEPT !.state = "cancelled"] ELSE fs[i]]

\* A collection in completion order, as iterating as_completed would make it.
CollectAsCompleted ==
    /\ pc = "pool"
    /\ raised = "none"
    /\ Len(collected) < Len(completed)
    /\ LET next == futures[completed[Len(collected) + 1]]
       IN  IF next.exc = "none"
           THEN /\ collected' = Append(collected, next.result)
                /\ UNCHANGED <<raised, futures>>
           ELSE /\ raised' = next.exc
                /\ futures' = CancelRest(futures)
                /\ UNCHANGED collected
    /\ UNCHANGED <<entry, args, site, network, pc, exception, self, soup, novel_info,
                   requests, failed_gets, pages_to_scrape, page_index,
                   chapters, targets, completed, chapters_info, book,
                   artifacts>>

\* list(results_gen) takes the next future's result, in submission order; a future
\* that holds an exception raises it and the rest are cancelled.
CollectResult ==
    /\ pc = "pool"
    /\ raised = "none"
    /\ Len(collected) < Len(futures)
    /\ LET next == futures[Len(collected) + 1]
       IN  /\ next.state = "finished"
           /\ IF next.exc = "none"
              THEN /\ collected' = Append(collected, next.result)
                   /\ UNCHANGED <<raised, futures>>
              ELSE /\ raised' = next.exc
                   /\ futures' = CancelRest(futures)
                   /\ UNCHANGED collected
    /\ UNCHANGED <<entry, args, site, network, pc, exception, self, soup, novel_info,
                   requests, failed_gets, pages_to_scrape, page_index,
                   chapters, targets, completed, chapters_info, book,
                   artifacts>>

\* The with block ends: shutdown(wait=True) returns once no task runs or is queued.
\* An exception goes on to the caller; else the results are the pool's chapters.
PoolExit ==
    /\ pc = "pool"
    /\ raised # "none" \/ Len(collected) = Len(futures)
    /\ Running = {} /\ Queued = {}
    /\ IF raised # "none"
       THEN /\ Fail(raised)
            /\ UNCHANGED <<chapters_info, page_index>>
       ELSE /\ chapters_info' = IF Scraper = "WuxiaWorld" THEN collected
                                ELSE chapters_info \o collected
            /\ page_index' = IF Scraper = "WuxiaWorld" THEN page_index
                             ELSE page_index + 1
            /\ pc' = IF Scraper = "WuxiaWorld" \/ page_index + 1 > Len(pages_to_scrape)
                     THEN "assemble" ELSE "page"
            /\ UNCHANGED exception
    /\ raised' = "none"
    /\ chapters' = <<>>
    /\ UNCHANGED <<entry, args, site, network, self, soup, novel_info, requests,
                   failed_gets, pages_to_scrape, targets, futures, collected,
                   completed, book, artifacts>>

(* ------------------------------ assembly ------------------------------- *)
\* The epub.EpubHtml create_epub makes of a chapter.
EpubHtml(chapter) ==
    [title |-> chapter.chapter_title,
     file_name |-> chapter.chapter_title \o <<".xhtml">>,
     content |-> <<"<h1>">> \o chapter.chapter_title \o <<"</h1><p>">>
                   \o chapter.chapter_content \o <<"</p>">>]

Nav == [title |-> <<"nav">>, file_name |-> <<"nav.xhtml">>, content |-> <<>>]

\* The name of the file create_epub writes.
EpubFileName == [start |-> self.start_chapter, end |-> self.end_chapter]

\* BaseScraper.create_epub (WuxiaWorld.create_epub is a copy of it)
CreateEpub ==
    /\ pc = "assemble"
    /\ LET sorted == SortByChapterNumber(chapters_info)
           items == [i \in 1..Len(sorted) |-> EpubHtml(sorted[i])]
       IN  /\ chapters_info' = sorted
           /\ book' = [toc |-> items, spine |-> <<Nav>> \o items]
    /\ artifacts' = artifacts \cup {EpubFileName}
    /\ pc' = "done"
    /\ UNCHANGED <<entry, args, site, network, exception, self, soup, novel_info,
                   requests, failed_gets, pages_to_scrape, page_index,
                   chapters, targets, futures, collected, raised, completed>>

(* --------------------------- specifications ---------------------------- *)
Next ==
    \/ WuxiaWorldRun
    \/ NovelFullRun
    \/ NovelFullConstruct
    \/ FetchNovelPage
    \/ FetchCover
    \/ DispatchChapters
    \/ CalculatePages
    \/ ScrapeNovelPage
    \/ \E i \in 1..Len(futures) : StartTask(i)
    \/ \E i \in 1..Len(futures) : FinishTask(i)
    \/ CollectResult
    \/ PoolExit
    \/ CreateEpub

Spec == Init /\ [][Next]_vars

(* Specifications of single steps of NovelFull.scrape, started from states that  *)
(* step is reached in, with its inputs drawn from wider sets than the runs of     *)
(* Spec visit.                                                                    *)

\* NovelFull.scrape after scrape_novel_info, with chapter bounds s and e.
NovelInfoScraped(s, e) ==
    /\ entry = "NovelFull"
    /\ args = [url |-> UrlFull, start_chapter |-> <<s>>, end_chapter |-> <<e>>]
    /\ network = Responsive
    /\ exception = "none"
    /\ self = [url |-> UrlFull, start_chapter |-> s, end_chapter |-> e,
               novel_chapter_link |-> <<>>]
    /\ soup = [parsed |-> TRUE, title |-> TRUE, cover |-> TRUE, author |-> TRUE,
               synopsis |-> TRUE]
    /\ novel_info = TRUE
    /\ failed_gets = {}
    /\ chapters = <<>>
    /\ targets = <<>>
    /\ futures = <<>>
    /\ collected = <<>>
    /\ raised = "none"
    /\ completed = <<>>
    /\ book = NoBook
    /\ artifacts = {}

\* Before calculate_pages_to_scrape, for every pair of chapter bounds the
\* constructor accepts up to MaxRangeChapter.
InitPages ==
    \E s \in 1..MaxRangeChapter, e \in 1..MaxRangeChapter :
        /\ NovelInfoScraped(s, e)
        /\ site = SiteEmpty
        /\ pc = "pages"
        /\ requests = {UrlFull, NovelFullDomain \o NovelFullCoverSrc}
        /\ pages_to_scrape = <<>>
        /\ page_index = 0
        /\ chapters_info = <<>>

NextPages == CalculatePages

SpecPages == InitPages /\ [][NextPages]_vars

\* Before scrape_novel_page(1), for every listing of at most MaxListing links on
\* page 1 and every pair of chapter bounds up to MaxChapter.
InitFilter ==
    \E s \in 1..MaxChapter, e \in 1..MaxChapter, listing \in SeqsUpTo(Links, MaxListing) :
        /\ NovelInfoScraped(s, e)
        /\ site = <<listing, <<>>>>
        /\ pc = "page"
        /\ requests = {UrlFull, NovelFullDomain \o NovelFullCoverSrc}
        /\ pages_to_scrape = calculate_pages_to_scrape(s, e)
        /\ page_index = 1
        /\ chapters_info = <<>>

NextFilter == ScrapeNovelPage

SpecFilter == InitFilter /\ [][NextFilter]_vars

\* The chapters NovelFull.scrape_chapter_page returns for the site's links.
ScrapedChapters ==
    {ChapterInfo(l.href, NovelFullChapterNumber(l.title), l.title, c) :
        l \in Links, c \in {<<"a1", "a2">>, FailedContent}}

\* Before create_epub, for every list of at most MaxAssemble scraped chapters.
InitAssemble ==
    \E cs \in SeqsUpTo(ScrapedChapters, MaxAssemble) :
        /\ NovelInfoScraped(1, PageSize + 1)
        /\ site = SiteEmpty
        /\ pc = "assemble"
        /\ requests = {UrlFull, NovelFullDomain \o NovelFullCoverSrc}
        /\ pages_to_scrape = <<1, 2>>
        /\ page_index = 3
        /\ chapters_info = cs

NextAssemble == CreateEpub

SpecAssemble == InitAssemble /\ [][NextAssemble]_vars

(* Specifications of whole runs against servers that do not answer every GET,   *)
(* and of runs whose targets reach and exceed the worker budget.                  *)

\* The chapter URLs WuxiaWorld.scrape builds for listing URL u and chapters s..e.
ChapterUrls(u, s, e) == {u \o WuxiaChapterLink(u) \o str(n) : n \in s..e}

\* A chapter page with its title and two paragraphs of content.
ChapterPage == ChapterDoc(TRUE, TRUE, TRUE, <<"a1", "a2">>, <<>>)

\* Runs against a server that never answers the GET of one chapter.
InitStalled ==
    /\ \/ /\ entry = "wuxiaworld"
          /\ args \in [url : {UrlNoSlash}, start_chapter : {<<1>>},
                       end_chapter : {<<n>> : n \in 1..MaxChapter}]
          /\ site = NoSite
          /\ \E n \in 1..MaxChapter :
                network = Network(ChapterUrls(UrlNoSlash, n, n), FALSE,
                                  Responses(ChapterDocs))
       \/ /\ entry = "NovelFull"
          /\ args \in [url : {UrlFull}, start_chapter : {<<1>>},
                       end_chapter : {<<1>>, <<PageSize + 1>>}]
          /\ site \in Sites
          /\ \E l \in {LinkPrologue, LinkChapter1, LinkChapter51} :
                network = Network({NovelFullDomain \o l.href}, FALSE,
                                  Responses(ChapterDocs))
    /\ Started

\* The targets of a run of the worker specification: MaxBacklog more than there
\* are workers.
MaxTasks == max_workers + MaxBacklog

\* Runs of MaxTasks chapters, against a server that never answers a chapter's
\* GET, or one that answers the chapters' GETs one at a time, in the order they
\* were sent, each with the chapter's page or each with a 404.
InitWorkers ==
    /\ entry = "wuxiaworld"
    /\ args = [url |-> UrlNoSlash, start_chapter |-> <<1>>,
               end_chapter |-> <<MaxTasks>>]
    /\ network \in
          {Network(ChapterUrls(UrlNoSlash, 1, MaxTasks), FALSE,
                   Responses(ChapterDocs)),
           Network({}, TRUE, {[status |-> StatusOK, doc |-> ChapterPage]}),
           Network({}, TRUE, {[status |-> 404, doc |-> <<>>]})}
    /\ site = NoSite
    /\ Started

InitNetworks == Init \/ InitStalled \/ InitWorkers

SpecWorkers == InitNetworks /\ [][Next]_vars

\* The steps of the main thread.
MainThread ==
    \/ WuxiaWorldRun
    \/ NovelFullRun
    \/ NovelFullConstruct
    \/ FetchNovelPage
    \/ FetchCover
    \/ DispatchChapters
    \/ CalculatePages
    \/ ScrapeNovelPage
    \/ CollectResult
    \/ PoolExit
    \/ CreateEpub

\* The steps of the pool's worker threads: a queued task is started, a running
\* one finishes.
Workers ==
    \/ \E i \in Queued : StartTask(i)
    \/ \E i \in Running : FinishTask(i)

\* The main thread keeps running; as long as a worker can take a queued task, or
\* a GET that the server answers is outstanding, one of these steps happens.
Fairness ==
    /\ WF_vars(MainThread)
    /\ WF_vars(Workers)

FairSpec == SpecWorkers /\ Fairness

(* ============================== claims ================================= *)

\* The run is over: the artifact is written or an exception has ended it.
Terminated == pc \in {"done", "failed"}

\* The chapter tasks whose GET got a response that was not a 200.
FailedFetches ==
    {i \in 1..Len(futures) : futures[i].state = "finished"
                             /\ TargetUrl(targets[i]) \in failed_gets}

\* The entries of the book that hold the failure placeholder.
PlaceholderEntries ==
    {i \in 1..Len(chapters_info) : chapters_info[i].chapter_content = FailedContent}

(* C1: no task loss under partial failure. A WuxiaWorld run whose pool got N    *)
(* targets, K < N of which failed on a non-200 response (and none in any other  *)
(* way), ends with the artifact written and a book of exactly N entries, K of   *)
(* them placeholders; the failure does not leave the pool as an exception.      *)
(* The code violates it: the ScraperError of get_page_content is re-raised by   *)
(* the result iterator of executor.map and ends the run.                        *)
C1_NoTaskLoss ==
    ( /\ Scraper = "WuxiaWorld"
      /\ Terminated
      /\ Len(targets) > 0
      /\ \A i \in 1..Len(futures) : futures[i].exc \in {"none", "ScraperError"}
      /\ Cardinality(FailedFetches) < Len(targets) )
    => ( /\ pc = "done"
         /\ exception = "none"
         /\ Len(book.toc) = Len(targets)
         /\ Cardinality(PlaceholderEntries) = Cardinality(FailedFetches) )

(* C2: order-independence from completion timing. Whatever order the chapter    *)
(* tasks of a WuxiaWorld run complete in, the book's toc and spine hold the      *)
(* chapters start_chapter..end_chapter in ascending order of chapter number,    *)
(* the i-th entry made of the i-th target's result.                              *)
C2_OrderIndependent ==
    (Scraper = "WuxiaWorld" /\ pc = "done")
    => /\ Len(chapters_info) = Len(targets)
       /\ Len(book.toc) = Len(targets)
       /\ Len(book.spine) = Len(targets) + 1
       /\ \A i \in 1..Len(targets) :
             /\ chapters_info[i].chapter_number = self.start_chapter + i - 1
             /\ chapters_info[i].chapter_url = targets[i]
             /\ book.toc[i] = EpubHtml(futures[i].result)
             /\ book.spine[i + 1] = EpubHtml(futures[i].result)
       /\ \A i, j \in 1..Len(chapters_info) :
             i < j => chapters_info[i].chapter_number < chapters_info[j].chapter_number

\* Three chapters were fetched, completed in the order 3, 2, 1, and assembled.
C2_Witness ==
    /\ Scraper = "WuxiaWorld"
    /\ pc = "done"
    /\ completed = <<3, 2, 1>>
    /\ Len(book.toc) = 3

\* The page of chapter n, as the specification defines it.
page(n) == ((n - 1) \div PageSize) + 1

(* C3: range resolution. For chapter bounds 1 <= start <= end,                  *)
(* calculate_pages_to_scrape returns the consecutive ascending pages from        *)
(* page(start) to page(end), both included, without gap or duplicate; two       *)
(* neighbouring chapters n, n + 1 resolve to two pages exactly when n is a       *)
(* multiple of the page size, and to one page otherwise.                         *)
C3_RangeResolution ==
    ( /\ Scraper = "NovelFull"
      /\ pc \in {"page", "pool", "assemble", "done"}
      /\ 1 <= self.start_chapter
      /\ self.start_chapter <= self.end_chapter )
    => /\ Len(pages_to_scrape) = page(self.end_chapter) - page(self.start_chapter) + 1
       /\ pages_to_scrape[1] = page(self.start_chapter)
       /\ pages_to_scrape[Len(pages_to_scrape)] = page(self.end_chapter)
       /\ \A i \in 1..(Len(pages_to_scrape) - 1) :
             pages_to_scrape[i + 1] = pages_to_scrape[i] + 1
       /\ (self.end_chapter = self.start_chapter + 1) =>
             (Len(pages_to_scrape) = 2 <=> self.start_chapter % PageSize = 0)
       /\ (self.end_chapter = self.start_chapter) => Len(pages_to_scrape) = 1
       /\ (self.start_chapter = PageSize /\ self.end_chapter = PageSize + 1) =>
             pages_to_scrape = <<1, 2>>

\* The pages of chapters 50 to 101 were calculated: page 1, that chapter 50 ends,
\* to page 3, that chapter 101 starts.
C3_Witness ==
    /\ pc = "page"
    /\ self.start_chapter = PageSize
    /\ self.end_chapter = 2 * PageSize + 1
    /\ pages_to_scrape = <<1, 2, 3>>

\* The chapter number a reader finds in a link's title, none for the prologue.
Numbered(l) == l # LinkPrologue

LinkNumber(l) ==
    CASE l = LinkChapter1 -> 1
      [] l = LinkChapter1Part2 -> 1
      [] l = LinkChapter2 -> 2
      [] l = LinkChapter50 -> PageSize
      [] l = LinkChapter51 -> PageSize + 1

\* Whether the filtering invariant retains link l.
Retained(l) ==
    ~Numbered(l)
    \/ (self.start_chapter <= LinkNumber(l) /\ LinkNumber(l) <= self.end_chapter)

(* C4: filtering invariant. Of the links of a listing page, filter_chapter_list *)
(* retains every link without a number, retains a numbered link exactly when    *)
(* its first number lies in [start, end], and returns the retained links in      *)
(* their listing order, each position of the listing at most once.               *)
C4_FilteringInvariant ==
    (pc = "pool" /\ Scraper = "NovelFull")
    => LET kept == {i \in 1..Len(chapters) : Retained(chapters[i])}
           rank(i) == Cardinality({j \in kept : j <= i})
       IN  /\ Len(targets) = Cardinality(kept)
           /\ \A i \in kept : targets[rank(i)] = chapters[i]

\* A listing of three links was filtered for chapters 1 to 1: the link of chapter
\* 2 is dropped, the unnumbered one and "Chapter 1 Part 2" are retained, in order.
C4_Witness ==
    /\ pc = "pool"
    /\ self.start_chapter = 1 /\ self.end_chapter = 1
    /\ chapters = <<LinkChapter2, LinkPrologue, LinkChapter1Part2>>
    /\ targets = <<LinkPrologue, LinkChapter1Part2>>

(* C5: extraction fallback never raises. A chapter task whose GET got a 200      *)
(* always leaves a result: the container's paragraphs, else the whole            *)
(* document's, else the failure placeholder; it never leaves an exception.       *)
(* The code violates it: a page without <div id="chapter-content"> makes both    *)
(* scrape_chapter_page raise AttributeError.                                     *)
C5_ExtractionNeverRaises ==
    \A i \in 1..Len(futures) :
        (futures[i].state = "finished" /\ TargetUrl(targets[i]) \notin failed_gets)
        => /\ futures[i].exc = "none"
           /\ futures[i].result.chapter_content # <<>>

\* scheme://host of a URL: the domain the URL names.
UrlDomain(u) == SubSeq(u, 1, 4)

\* The domain the scraper at hand supports.
ScraperDomain == IF Scraper = "WuxiaWorld" THEN WuxiaWorldDomain ELSE NovelFullDomain

\* Both chapter bounds are given, as integers, and the URL names another domain
\* or one of the bounds is below 1.
InvalidInput ==
    /\ args.start_chapter # None
    /\ args.end_chapter # None
    /\ \/ UrlDomain(args.url) # ScraperDomain
       \/ args.start_chapter[1] < 1
       \/ args.end_chapter[1] < 1

(* C6: validation precedes all network activity. When the URL's domain is not   *)
(* the scraper's, or an integer chapter bound is below 1, the construction       *)
(* fails with ScraperError, no GET is ever sent and no artifact is written.      *)
(* The code violates it: the constructors test `domain not in url`, which a     *)
(* URL of another host that holds the domain elsewhere passes.                   *)
C6_ValidationPrecedesNetwork ==
    (entry # "novelfull" /\ InvalidInput)
    => /\ pc \in {"main", "failed"}
       /\ pc = "failed" => exception = "ScraperError"
       /\ requests = {}
       /\ artifacts = {}

(* C7: the end bound is not below the start bound. A construction with          *)
(* 1 <= end_chapter < start_chapter is rejected with ScraperError, so a run      *)
(* that builds its targets has 1 <= start_chapter <= end_chapter.                *)
(* The code violates it: the constructors only test end_chapter < 1.             *)
C7_EndNotBelowStart ==
    /\ ( /\ entry # "novelfull"
         /\ args.start_chapter # None
         /\ args.end_chapter # None
         /\ 1 <= args.end_chapter[1]
         /\ args.end_chapter[1] < args.start_chapter[1]
         /\ pc # "main" )
       => (pc = "failed" /\ exception = "ScraperError" /\ requests = {})
    /\ pc \in {"targets", "pages", "page", "pool", "assemble", "done"}
       => (1 <= self.start_chapter /\ self.start_chapter <= self.end_chapter)

\* The novel page's or the cover's GET failed, or the novel page lacks its title
\* or its author block.
MetadataFault ==
    \/ self.url \in failed_gets
    \/ CoverUrl \in failed_gets
    \/ (soup.parsed /\ (~soup.title \/ ~soup.author))

\* The run has got to the chapters: targets were built or a task was submitted.
PastNovelInfo == pc \in {"targets", "pages", "page", "pool", "assemble", "done"}

(* C8: metadata faults are fatal and precede the pool. The novel page's and the  *)
(* cover's GET have both returned a 200 before any chapter task is submitted;    *)
(* after a non-200 response to either, or with the title or the author block     *)
(* missing, the run never gets to the chapters: it ends with an exception, no    *)
(* other GET is sent and no artifact is written.                                 *)
C8_MetadataFaultsFatal ==
    /\ (PastNovelInfo \/ futures # <<>>)
       => /\ novel_info
          /\ {self.url, CoverUrl} \subseteq requests
          /\ self.url \notin failed_gets
          /\ CoverUrl \notin failed_gets
          /\ soup.parsed /\ soup.title /\ soup.author
    /\ MetadataFault
       => /\ ~PastNovelInfo
          /\ pc = "failed" \/ (pc = "cover" /\ ~soup.author)
          /\ pc = "failed" => exception \in {"ScraperError", "AttributeError"}
          /\ futures = <<>>
          /\ requests \subseteq {self.url, CoverUrl}
          /\ artifacts = {}

\* The cover's GET got a non-200 response and the run ended with ScraperError.
C8_Witness ==
    /\ Scraper = "WuxiaWorld"
    /\ pc = "failed"
    /\ exception = "ScraperError"
    /\ self.url \notin failed_gets
    /\ CoverUrl \in failed_gets
    /\ requests = {self.url, CoverUrl}

\* xs is in nondecreasing order of chapter number.
Ascending(xs) ==
    \A i, j \in 1..Len(xs) : i < j => xs[i].chapter_number <= xs[j].chapter_number

\* The entries of xs whose chapter number is n, in their order in xs.
WithNumber(xs, n) ==
    LET Same(x) == x.chapter_number = n
    IN  SelectSeq(xs, Same)

\* ys holds the entries of xs, none dropped or duplicated, in nondecreasing order
\* of chapter number, those of equal number in their order in xs.
StablySorted(xs, ys) ==
    /\ Len(ys) = Len(xs)
    /\ Ascending(ys)
    /\ \A n \in {xs[i].chapter_number : i \in 1..Len(xs)}
             \cup {ys[i].chapter_number : i \in 1..Len(ys)} :
          WithNumber(ys, n) = WithNumber(xs, n)

(* C9: stable ascending assembly. The chapters create_epub adds to the book are  *)
(* the chapters it was given, none dropped or duplicated, in nondecreasing       *)
(* order of chapter number (so the -1 entries come first), those of equal        *)
(* number in the order they were given in; a list given in that order already    *)
(* is added as it is.                                                            *)
C9_StableAscendingAssembly ==
    [][pc = "assemble" =>
         /\ StablySorted(chapters_info, chapters_info')
         /\ Ascending(chapters_info) => chapters_info' = chapters_info
         /\ \A i, j \in 1..Len(chapters_info') :
               (chapters_info'[i].chapter_number # -1
                /\ chapters_info'[j].chapter_number = -1) => j < i
         /\ book'.toc = [i \in 1..Len(chapters_info') |-> EpubHtml(chapters_info'[i])]
         /\ book'.spine = <<Nav>> \o book'.toc]_vars

\* A book was assembled of an unnumbered chapter and the two chapters numbered 1,
\* "Chapter 1 Part 2" before "Chapter 1".
C9_Witness ==
    /\ pc = "done"
    /\ Len(chapters_info) = 3
    /\ chapters_info[1].chapter_number = -1
    /\ chapters_info[2].chapter_title = LinkChapter1Part2.title
    /\ chapters_info[3].chapter_title = LinkChapter1.title
    /\ Len(book.toc) = 3

\* The URL a chapter task records for target t.
RecordedUrl(t) == IF Scraper = "WuxiaWorld" THEN t ELSE t.href

\* The links of the listing pages pages_to_scrape[1..n] that are in range, page
\* after page, each page's in its listing order.
RECURSIVE Discovered(_)
Discovered(n) ==
    IF n = 0 THEN <<>>
    ELSE Discovered(n - 1)
         \o filter_chapter_list(SiteListing(pages_to_scrape[n]),
                                self.start_chapter, self.end_chapter)

(* C10: index-addressed collection. Whatever order the tasks complete in, the   *)
(* i-th collected result is the result of the i-th target; before it is sorted, *)
(* WuxiaWorld's chapter list is the results of chapters_to_scrape in order, and *)
(* NovelFull's is the results of the pages scraped so far, in ascending page    *)
(* order and within a page in listing order.                                    *)
C10_IndexAddressedCollection ==
    /\ pc = "pool" \/ (Scraper = "WuxiaWorld" /\ pc = "assemble")
       => /\ Len(collected) <= Len(targets)
          /\ \A i \in 1..Len(collected) :
                /\ futures[i].state = "finished"
                /\ collected[i] = futures[i].result
                /\ collected[i].chapter_url = RecordedUrl(targets[i])
    /\ (Scraper = "WuxiaWorld" /\ pc = "assemble")
       => /\ chapters_info = collected
          /\ Len(chapters_info) = Len(targets)
          /\ targets = chapters_to_scrape
    /\ (Scraper = "NovelFull" /\ pc \in {"page", "pool", "assemble"})
       => /\ Len(chapters_info) = Len(Discovered(page_index - 1))
          /\ \A i \in 1..Len(chapters_info) :
                chapters_info[i].chapter_url = Discovered(page_index - 1)[i].href
          /\ \A i \in 1..(Len(pages_to_scrape) - 1) :
                pages_to_scrape[i] < pages_to_scrape[i + 1]

\* NovelFull's chapters of two listing pages are collected, the two tasks of the
\* second page having completed in the order 2, 1.
C10_Witness ==
    /\ Scraper = "NovelFull"
    /\ pc = "assemble"
    /\ Len(pages_to_scrape) = 2
    /\ completed = <<2, 1>>
    /\ Len(chapters_info) = 4

\* The listing path of URL u: u without a trailing slash.
ListingPath(u) == IF EndsWith(u, "/") THEN SubSeq(u, 1, Len(u) - 1) ELSE u

\* The URL the template {listing-path}-chapter-{n} gives chapter n of listing URL
\* u: the listing path, "/", the path's last segment, "-chapter-" and n.
TemplateUrl(u, n) ==
    ListingPath(u) \o <<"/">> \o LastSegment(ListingPath(u), "/")
        \o <<"-", "chapter", "-">> \o str(n)

(* C11: URL-templated targets. For every listing URL the WuxiaWorld constructor  *)
(* accepts, with or without a trailing slash, and every range, scrape builds     *)
(* one target per chapter number n of start_chapter..end_chapter, in ascending   *)
(* order, the target of n being the template's URL of n, and the chapter number  *)
(* recorded in that target's result is n.                                        *)
(* The code violates it: of a listing URL that ends with "/" split("/")[-1] is   *)
(* the empty string, so the target is {listing-path}/-chapter-{n}.               *)
C11_UrlTemplatedTargets ==
    (Scraper = "WuxiaWorld" /\ pc \in {"pool", "assemble", "done"})
    => LET n(k) == self.start_chapter + k - 1
       IN  /\ Len(targets) = IF self.end_chapter >= self.start_chapter
                             THEN self.end_chapter - self.start_chapter + 1 ELSE 0
           /\ \A k \in 1..Len(targets) :
                 /\ targets[k] = TemplateUrl(self.url, n(k))
                 /\ (futures[k].state = "finished" /\ futures[k].exc = "none")
                    => futures[k].result.chapter_number = n(k)

\* The subcommands main() dispatches to.
Subcommands == {"wuxiaworld", "novelfull"}

\* The run has got into the pipeline: a scraper is constructed, a GET is sent, a
\* task is submitted, a book is made or an artifact is written.
InPipeline ==
    \/ pc \notin {"main", "failed"}
    \/ self # NoSelf
    \/ requests # {}
    \/ futures # <<>>
    \/ book # NoBook
    \/ artifacts # {}

CurrentListing == SiteListing(pages_to_scrape[page_index])

(* C12: bounded concurrency. In every state of every run at most max_workers    *)
(* chapter tasks are executing; no task is executing outside its pool's with    *)
(* block; NovelFull's listing pages are processed one after another, so every   *)
(* task in flight belongs to the one page the for loop is at, and the loop      *)
(* moves to another page only when no task is left running or queued.           *)
C12_BoundedConcurrency ==
    /\ Cardinality(Running) <= max_workers
    /\ pc # "pool" => (Running = {} /\ Queued = {})
    /\ (Scraper = "NovelFull" /\ pc = "pool")
       => /\ page_index \in 1..Len(pages_to_scrape)
          /\ \A i \in Running \cup Queued :
                \E k \in 1..Len(CurrentListing) : targets[i] = CurrentListing[k]

\* The worker budget has bound: the task behind the first max_workers ones had
\* to wait for a completion, and runs now as one of max_workers executing tasks.
C12_Witness ==
    /\ Len(futures) > max_workers
    /\ futures[max_workers + 1].state = "running"
    /\ Cardinality(Running) = max_workers
    /\ completed # <<>>

\* A GET was sent that the server never answers.
HungSent == requests \cap network.hung # {}

(* C14: termination without timeouts. When every GET that is sent returns, with  *)
(* a 200 or not, then under fair scheduling of the main thread and the workers   *)
(* every run ends, with the artifact written or with an exception, also when     *)
(* the targets outnumber the workers; and a run in which the GET of one chapter  *)
(* task never returns never gets to the assembly, nothing cancelling, timing out *)
(* or retrying that task.                                                        *)
C14_TerminationWithoutTimeouts ==
    /\ <>(Terminated \/ HungSent)
    /\ [](pc = "done" => artifacts # {})
    /\ [](pc = "failed" => exception # "none")
    /\ [](HungSent => (pc \notin {"assemble", "done"} /\ book = NoBook /\ artifacts = {}))

\* A run of more chapters than there are workers has ended with the artifact
\* written, every one of its GETs having returned.
C14_Witness ==
    /\ pc = "done"
    /\ Len(targets) > max_workers
    /\ ~HungSent
    /\ artifacts # {}
    /\ Len(book.toc) = Len(targets)

====
